---- MODULE Spec2Model ----
(***************************************************************************)
(* Model of the two-tier project store of utils/project_storage.py:        *)
(* ProjectContext records, the in-memory table, the directory of JSON      *)
(* files, and the operations save / get / get_by_name / delete with the    *)
(* file codec and the file-name sanitisation; the listing; the store's     *)
(* lock and the module's singleton accessor as steps of threads.           *)
(*                                                                         *)
(* Strings whose characters matter (project ids, file names, path          *)
(* segments) are sequences of one-character strings.  Timestamps are the   *)
(* ISO strings of datetime.utcnow(), modelled by the clock tick they       *)
(* denote (the ISO format orders like the instants it prints).             *)
(***************************************************************************)
EXTENDS Integers, Sequences, FiniteSets, TLC

VARIABLES
    memory_store,   \* ProjectStorage._memory_store: project_id -> record or None
    files,          \* the files of the projects directory: path -> document
    clock,          \* what datetime.utcnow() reads
    last,           \* the last call of the store: operation, arguments, result
    deleted,        \* the ids deleted from memory alone (delete_file=True, no
                    \* file) by this process and not saved since
    probe,          \* SanSpec only: a project_id and the path derived from it
    pc,             \* where each thread is in the call it is making
    frame,          \* the arguments and locals of each thread's call
    _lock,          \* ProjectStorage._lock: the thread holding it, or NoThread
    _project_storage_instance,  \* the module global: an instance, or NoInstance
    _project_storage_lock,      \* the module's lock: its holder, or NoThread
    constructed,    \* how often ProjectStorage.__init__ has run
    settled         \* RaceSpec only: what the calls that have returned settle

\* the state of the threads, the locks and the singleton, and the history of
\* the threads' calls
thread_vars ==
    <<pc, frame, _lock, _project_storage_instance, _project_storage_lock, constructed,
      settled>>

vars == <<memory_store, files, clock, last, deleted, probe, thread_vars>>

----------------------------------------------------------------------------
(* Bounds *)

MaxClock == 1       \* the clock runs over 0..MaxClock
MaxIdLen == 3       \* SanSpec: project ids of up to MaxIdLen characters
MaxThreads == 2     \* ConcSpec: the threads calling into the module

----------------------------------------------------------------------------
(* Characters and paths *)

\* characters c with c.isalnum() true
AlnumChars == {"a", "b", "Z", "7"}

\* the characters project ids are drawn from
Chars == AlnumChars \cup {"-", "/", ".", "_"}

isalnum(c) == c \in AlnumChars

JsonSuffix == <<".", "j", "s", "o", "n">>

\* Path.home() / ".pal" / "projects", as path segments
projects_dir ==
    << <<"~">>, <<".", "p", "a", "l">>, <<"p", "r", "o", "j", "e", "c", "t", "s">> >>

\* the segments of a relative or absolute path string: split at "/", the
\* empty and the "." segments dropped, ".." kept (pathlib does not resolve it)
RECURSIVE SplitSegments(_, _)
SplitSegments(s, cur) ==
    LET keep == IF cur = <<>> \/ cur = <<".">> THEN <<>> ELSE <<cur>>
    IN  IF s = <<>> THEN keep
        ELSE IF Head(s) = "/" THEN keep \o SplitSegments(Tail(s), <<>>)
        ELSE SplitSegments(Tail(s), Append(cur, Head(s)))

\* pathlib's dir / name: an absolute name replaces dir, a relative one is
\* appended segment by segment
PathJoin(dir, name) ==
    IF name # <<>> /\ Head(name) = "/"
    THEN SplitSegments(name, <<>>)
    ELSE dir \o SplitSegments(name, <<>>)

\* a sanitiser that also lets "." and "/" through
SafeCharKeepsPathChars(c) == isalnum(c) \/ c \in {"-", ".", "/"}

\* the filter of _get_file_path: c.isalnum() or c == "-"
SafeChar(c) == isalnum(c) \/ c = "-"

\* "".join(c for c in project_id if c.isalnum() or c == "-")
safe_id(project_id) == SelectSeq(project_id, SafeChar)

\* ProjectStorage._get_file_path
_get_file_path(project_id) == PathJoin(projects_dir, safe_id(project_id) \o JsonSuffix)

----------------------------------------------------------------------------
(* Records and documents *)

\* Python's None
None == [none |-> TRUE]

\* the project ids the store is driven with; they differ and share a file name
ProjectIds == { <<"a">>, <<"a", "/">> }

\* what callers put into a record: <<project_name, context>>.  context stands
\* for the free-text payload (summary, decisions, blockers, next_steps,
\* focus_areas and metadata are carried through the store the same way)
Payloads == { <<"demo", "v1">>, <<"other", "v2">> }

ProjectNames == { pl[1] : pl \in Payloads }

FieldNames == {"project_id", "project_name", "context", "created_at", "updated_at"}

RequiredFields == {"project_id", "project_name"}

\* ProjectContext(project_id=..., project_name=..., context=...) built at time t:
\* both timestamps default to utcnow()
ProjectContext(pid, name, ctx, t) ==
    [project_id |-> pid, project_name |-> name, context |-> ctx,
     created_at |-> t, updated_at |-> t]

\* a file that does not exist
NoFile == [kind |-> "absent"]

\* a file whose text is not JSON (truncated, overwritten by something else)
Garbage == [kind |-> "garbage"]

\* a file holding a JSON object with the given keys
JsonDoc(data) == [kind |-> "json", data |-> data]

\* project.model_dump_json(indent=2): a JSON object of all fields
model_dump_json(project) == JsonDoc([k \in FieldNames |-> project[k]])

\* the default of a field that the parsed object lacks
FieldDefault(k, now) ==
    IF k \in {"created_at", "updated_at"} THEN now ELSE "v1"

\* ProjectContext(**data) on the object json.loads returned: a validation
\* error (None here) when a required field is missing, defaults otherwise
ParseProjectContext(data, now) ==
    IF RequiredFields \subseteq DOMAIN data
    THEN [k \in FieldNames |-> IF k \in DOMAIN data THEN data[k] ELSE FieldDefault(k, now)]
    ELSE None

FilePaths == { _get_file_path(i) : i \in ProjectIds }

----------------------------------------------------------------------------
(* The store's operations, as functions of the two tiers *)

\* _save_to_file creating the file only when there is none (open mode "x")
_save_to_file_if_absent(fs, project, w) ==
    LET file_path == _get_file_path(project.project_id)
    IN  IF fs[file_path] # NoFile THEN fs
        ELSE CASE w = "ok"        -> [fs EXCEPT ![file_path] = model_dump_json(project)]
               [] w = "truncated" -> [fs EXCEPT ![file_path] = Garbage]
               [] OTHER           -> fs

\* ProjectStorage._save_to_file; w is what write_text does: "ok", "error"
\* (it raises before the file is touched) or "truncated" (it raises after the
\* file was opened for writing)
_save_to_file(fs, project, w) ==
    LET file_path == _get_file_path(project.project_id)
    IN  CASE w = "ok"        -> [fs EXCEPT ![file_path] = model_dump_json(project)]
          [] w = "truncated" -> [fs EXCEPT ![file_path] = Garbage]
          [] OTHER           -> fs

\* save leaving an entry the memory table already holds (setdefault)
save_keep_existing(mem, fs, now, project, persist, w) ==
    LET p == [project EXCEPT !.updated_at = now]
    IN  [mem      |-> IF mem[p.project_id] # None THEN mem
                      ELSE [mem EXCEPT ![p.project_id] = p],
         fs       |-> IF persist THEN _save_to_file(fs, p, w) ELSE fs,
         ret      |-> p.project_id,
         reads    |-> 0,
         fs_calls |-> IF persist THEN 1 ELSE 0]

\* save stamping created_at, not updated_at, with the current time
save_stamps_created(mem, fs, now, project, persist, w) ==
    LET p == [project EXCEPT !.created_at = now]
    IN  [mem      |-> [mem EXCEPT ![p.project_id] = p],
         fs       |-> IF persist THEN _save_to_file(fs, p, w) ELSE fs,
         ret      |-> p.project_id,
         reads    |-> 0,
         fs_calls |-> IF persist THEN 1 ELSE 0]

\* save writing the file before it stamps updated_at
save_file_before_stamp(mem, fs, now, project, persist, w) ==
    LET p == [project EXCEPT !.updated_at = now]
    IN  [mem      |-> [mem EXCEPT ![p.project_id] = p],
         fs       |-> IF persist THEN _save_to_file(fs, project, w) ELSE fs,
         ret      |-> p.project_id,
         reads    |-> 0,
         fs_calls |-> IF persist THEN 1 ELSE 0]

\* save writing the file first and giving up, with an empty id as result and
\* no memory entry, when the write fails
save_write_through(mem, fs, now, project, persist, w) ==
    LET p == [project EXCEPT !.updated_at = now]
    IN  IF persist /\ w # "ok"
        THEN [mem |-> mem, fs |-> _save_to_file(fs, p, w), ret |-> <<>>,
              reads |-> 0, fs_calls |-> 1]
        ELSE [mem      |-> [mem EXCEPT ![p.project_id] = p],
              fs       |-> IF persist THEN _save_to_file(fs, p, w) ELSE fs,
              ret      |-> p.project_id,
              reads    |-> 0,
              fs_calls |-> IF persist THEN 1 ELSE 0]

\* save writing the file whatever persist says
save_always_persists(mem, fs, now, project, persist, w) ==
    LET p == [project EXCEPT !.updated_at = now]
    IN  [mem      |-> [mem EXCEPT ![p.project_id] = p],
         fs       |-> _save_to_file(fs, p, w),
         ret      |-> p.project_id,
         reads    |-> 0,
         fs_calls |-> 1]

\* ProjectStorage.save
save(mem, fs, now, project, persist, w) ==
    LET p == [project EXCEPT !.updated_at = now]
    IN  [mem      |-> [mem EXCEPT ![p.project_id] = p],
         fs       |-> IF persist THEN _save_to_file(fs, p, w) ELSE fs,
         ret      |-> p.project_id,
         reads    |-> 0,
         fs_calls |-> IF persist THEN 1 ELSE 0]

\* _load_from_file answering a file it cannot read or parse with a record of
\* defaults
_load_from_file_lenient(fs, now, project_id, r) ==
    LET file_path == _get_file_path(project_id)
        doc       == fs[file_path]
        parsed    == IF r = "ok" /\ doc.kind = "json"
                     THEN ParseProjectContext(doc.data, now)
                     ELSE None
    IN  IF doc # NoFile
        THEN [project  |-> IF parsed # None THEN parsed
                           ELSE ProjectContext(project_id, "demo", "v1", now),
              reads    |-> 1,
              fs_calls |-> 2]
        ELSE [project |-> None, reads |-> 0, fs_calls |-> 1]

\* ProjectStorage._load_from_file; r is what read_text does: "ok" or "error"
_load_from_file(fs, now, project_id, r) ==
    LET file_path == _get_file_path(project_id)
        doc       == fs[file_path]
    IN  IF doc # NoFile
        THEN [project  |-> IF r = "ok" /\ doc.kind = "json"
                           THEN ParseProjectContext(doc.data, now)
                           ELSE None,
              reads    |-> 1,
              fs_calls |-> 2]
        ELSE [project |-> None, reads |-> 0, fs_calls |-> 1]

\* get asking the file tier first and the memory table on a miss
get_file_first(mem, fs, now, project_id, r) ==
    LET loaded == _load_from_file(fs, now, project_id, r)
    IN  IF loaded.project # None
        THEN [mem |-> [mem EXCEPT ![project_id] = loaded.project], fs |-> fs,
              ret |-> loaded.project, reads |-> loaded.reads, fs_calls |-> loaded.fs_calls]
        ELSE [mem |-> mem, fs |-> fs, ret |-> mem[project_id],
              reads |-> loaded.reads, fs_calls |-> loaded.fs_calls]

\* get returning the loaded record without caching it in the memory table
get_no_promote(mem, fs, now, project_id, r) ==
    IF mem[project_id] # None
    THEN [mem |-> mem, fs |-> fs, ret |-> mem[project_id], reads |-> 0, fs_calls |-> 0]
    ELSE LET loaded == _load_from_file(fs, now, project_id, r)
         IN  [mem |-> mem, fs |-> fs, ret |-> loaded.project,
              reads |-> loaded.reads, fs_calls |-> loaded.fs_calls]

\* ProjectStorage.get
get(mem, fs, now, project_id, r) ==
    IF mem[project_id] # None
    THEN [mem |-> mem, fs |-> fs, ret |-> mem[project_id], reads |-> 0, fs_calls |-> 0]
    ELSE LET loaded == _load_from_file(fs, now, project_id, r)
         IN  [mem      |-> IF loaded.project # None
                           THEN [mem EXCEPT ![project_id] = loaded.project]
                           ELSE mem,
              fs       |-> fs,
              ret      |-> loaded.project,
              reads    |-> loaded.reads,
              fs_calls |-> loaded.fs_calls]

\* delete reporting the removal from memory alone
delete_reports_memory_only(mem, fs, project_id, delete_file, u) ==
    LET in_memory == mem[project_id] # None
        file_path == _get_file_path(project_id)
        unlinked  == delete_file /\ fs[file_path] # NoFile /\ u = "ok"
    IN  [mem      |-> [mem EXCEPT ![project_id] = None],
         fs       |-> IF unlinked THEN [fs EXCEPT ![file_path] = NoFile] ELSE fs,
         ret      |-> in_memory,
         reads    |-> 0,
         fs_calls |-> IF ~delete_file THEN 0
                      ELSE IF fs[file_path] # NoFile THEN 2 ELSE 1]

\* ProjectStorage.delete; u is what unlink does: "ok" or "error"
delete(mem, fs, project_id, delete_file, u) ==
    LET in_memory == mem[project_id] # None
        file_path == _get_file_path(project_id)
        unlinked  == delete_file /\ fs[file_path] # NoFile /\ u = "ok"
    IN  [mem      |-> [mem EXCEPT ![project_id] = None],
         fs       |-> IF unlinked THEN [fs EXCEPT ![file_path] = NoFile] ELSE fs,
         ret      |-> in_memory \/ unlinked,
         reads    |-> 0,
         fs_calls |-> IF ~delete_file THEN 0
                      ELSE IF fs[file_path] # NoFile THEN 2 ELSE 1]

----------------------------------------------------------------------------
\* the files of the directory in an enumeration order: glob("*.json")
GlobOrders(fs) ==
    LET present == { f \in DOMAIN fs : fs[f] # NoFile }
    IN  { o \in [1..Cardinality(present) -> present] :
            \A i, j \in DOMAIN o : i # j => o[i] # o[j] }

\* the loop of ProjectStorage._load_from_file_by_name over the files in the
\* order glob yields them; unreadable are the files whose read_text raises
RECURSIVE ScanFilesByName(_, _, _, _, _, _)
ScanFilesByName(fs, now, project_name, order, unreadable, n) ==
    IF order = <<>>
    THEN [project |-> None, reads |-> n]
    ELSE LET doc     == fs[Head(order)]
             matches == /\ Head(order) \notin unreadable
                        /\ doc.kind = "json"
                        /\ "project_name" \in DOMAIN doc.data
                        /\ doc.data["project_name"] = project_name
             project == IF matches THEN ParseProjectContext(doc.data, now) ELSE None
         IN  IF project # None
             THEN [project |-> project, reads |-> n + 1]
             ELSE ScanFilesByName(fs, now, project_name, Tail(order), unreadable, n + 1)

\* ProjectStorage._load_from_file_by_name (the projects directory exists)
_load_from_file_by_name(fs, now, project_name, order, unreadable) ==
    ScanFilesByName(fs, now, project_name, order, unreadable, 0)

\* the ids whose memory entry carries the name
NamedInMemory(mem, project_name) ==
    { i \in DOMAIN mem : mem[i] # None /\ mem[i].project_name = project_name }

\* get_by_name caching a record found in a file, as get does
get_by_name_promotes(mem, fs, now, project_name, first, order, unreadable) ==
    IF first # <<>>
    THEN [mem |-> mem, fs |-> fs, ret |-> mem[first[1]], reads |-> 0, fs_calls |-> 0]
    ELSE LET loaded == _load_from_file_by_name(fs, now, project_name, order, unreadable)
         IN  [mem |-> IF loaded.project # None
                      THEN [mem EXCEPT ![loaded.project.project_id] = loaded.project]
                      ELSE mem,
              fs |-> fs, ret |-> loaded.project,
              reads |-> loaded.reads, fs_calls |-> loaded.reads + 2]

\* get_by_name scanning the files first and the memory table on a miss
get_by_name_files_first(mem, fs, now, project_name, first, order, unreadable) ==
    LET loaded == _load_from_file_by_name(fs, now, project_name, order, unreadable)
    IN  IF loaded.project # None \/ first = <<>>
        THEN [mem |-> mem, fs |-> fs, ret |-> loaded.project,
              reads |-> loaded.reads, fs_calls |-> loaded.reads + 2]
        ELSE [mem |-> mem, fs |-> fs, ret |-> mem[first[1]],
              reads |-> loaded.reads, fs_calls |-> loaded.reads + 2]

\* ProjectStorage.get_by_name; first is the entry the scan of the memory table
\* meets first among those carrying the name, as <<id>> (<<>> when none does)
get_by_name(mem, fs, now, project_name, first, order, unreadable) ==
    IF first # <<>>
    THEN [mem |-> mem, fs |-> fs, ret |-> mem[first[1]], reads |-> 0, fs_calls |-> 0]
    ELSE LET loaded == _load_from_file_by_name(fs, now, project_name, order, unreadable)
         IN  [mem |-> mem, fs |-> fs, ret |-> loaded.project,
              reads |-> loaded.reads, fs_calls |-> loaded.reads + 2]

----------------------------------------------------------------------------
\* the keys of the memory table in an iteration order of the dict
KeyOrders(mem) ==
    LET present == { i \in DOMAIN mem : mem[i] # None }
    IN  { o \in [1..Cardinality(present) -> present] :
            \A i, j \in DOMAIN o : i # j => o[i] # o[j] }

\* data.get("project_name", "Unknown")
Unknown == "Unknown"

\* data.get("updated_at", "Unknown"): a text that is no timestamp
UnknownTime == -1

\* the summary list_projects makes of a record
Summary(pid, name, updated_at, source) ==
    [project_id |-> pid, project_name |-> name, updated_at |-> updated_at,
     source |-> source]

\* the summaries of the memory entries, keyed and ordered by the keys
MemorySummaries(mem, keys) ==
    [k \in 1..Len(keys) |->
        Summary(keys[k], mem[keys[k]].project_name, mem[keys[k]].updated_at, "memory")]

\* `if pid and pid not in projects`, where every id is its key
ListableAnyId(pid, projects) == pid # <<>>

\* `if pid and pid not in projects`
Listable(pid, projects) ==
    /\ pid # <<>>
    /\ \A k \in DOMAIN projects : projects[k].project_id # pid

\* data.get(k, default) on the object of a file
DataGet(data, k, default) == IF k \in DOMAIN data THEN data[k] ELSE default

\* the loop of list_projects over the files in the order glob yields them:
\* a file that cannot be read or parsed is skipped, one whose project_id is
\* missing, empty or listed already adds nothing
RECURSIVE ListFiles(_, _, _, _)
ListFiles(fs, order, unreadable, projects) ==
    IF order = <<>> THEN projects
    ELSE LET doc  == fs[Head(order)]
             good == Head(order) \notin unreadable /\ doc.kind = "json"
             pid  == IF good THEN DataGet(doc.data, "project_id", <<>>) ELSE <<>>
         IN  IF good /\ Listable(pid, projects)
             THEN ListFiles(fs, Tail(order), unreadable,
                            Append(projects,
                                   Summary(pid,
                                           DataGet(doc.data, "project_name", Unknown),
                                           DataGet(doc.data, "updated_at", UnknownTime),
                                           "file")))
             ELSE ListFiles(fs, Tail(order), unreadable, projects)

\* ProjectStorage.list_projects (the projects directory exists); keys is the
\* iteration order of the memory table, order the one of glob
list_projects(mem, fs, keys, order, unreadable) ==
    [mem      |-> mem,
     fs       |-> fs,
     ret      |-> ListFiles(fs, order, unreadable, MemorySummaries(mem, keys)),
     reads    |-> Len(order),
     fs_calls |-> Len(order) + 2]

----------------------------------------------------------------------------
(* The state machine *)

EmptyStore == [i \in ProjectIds |-> None]

\* <<project_name, context>> of a record
Content(project) == <<project.project_name, project.context>>

\* no call yet
NoCall ==
    [op |-> "none", id |-> <<>>, flag |-> FALSE, io |-> "none", arg |-> None,
     ret |-> None, reads |-> 0, fs_calls |-> 0,
     had_mem |-> FALSE, had_file |-> FALSE, replaced |-> FALSE]

\* the record of a call on an id: its operation and arguments, the outcome io
\* of the file operation it performed ("none" when it performed none), its
\* result res, whether the tiers held the id when it started, and whether a
\* save replaced a memory entry of other content
Call(op, id, flag, io, arg, res) ==
    [op |-> op, id |-> id, flag |-> flag, io |-> io, arg |-> arg, ret |-> res.ret, reads |-> res.reads, fs_calls |-> res.fs_calls,
     had_mem  |-> memory_store[id] # None,
     had_file |-> files[_get_file_path(id)] # NoFile,
     replaced |-> /\ op = "save"
                  /\ memory_store[id] # None
                  /\ Content(memory_store[id]) # Content(arg)]

\* the record of a get_by_name call (it has a name, not an id)
NameCall(project_name, io, res) ==
    [op |-> "get_by_name", id |-> <<>>, flag |-> FALSE, io |-> io, arg |-> project_name,
     ret |-> res.ret, reads |-> res.reads, fs_calls |-> res.fs_calls,
     had_mem  |-> NamedInMemory(memory_store, project_name) # {},
     had_file |-> \E f \in DOMAIN files : files[f] # NoFile,
     replaced |-> FALSE]

\* the record of a list_projects call
ListCall(io, res) ==
    [op |-> "list_projects", id |-> <<>>, flag |-> FALSE, io |-> io, arg |-> None,
     ret |-> res.ret, reads |-> res.reads, fs_calls |-> res.fs_calls,
     had_mem  |-> \E i \in DOMAIN memory_store : memory_store[i] # None,
     had_file |-> \E f \in DOMAIN files : files[f] # NoFile,
     replaced |-> FALSE]

NoProbe == [id |-> <<>>, path |-> <<>>, done |-> FALSE]

Threads == 1..MaxThreads

\* no thread: a lock that is free
NoThread == 0

\* _project_storage_instance = None
NoInstance == 0

\* the frame of a call: the operation, its arguments (an id, a record or a
\* name, a flag), a local, the result, and the store the thread got from
\* get_project_storage
Frame(op, id, arg, flag, storage) ==
    [op |-> op, id |-> id, arg |-> arg, flag |-> flag, local |-> None, ret |-> None,
     storage |-> storage]

\* a thread that is in no call
IdleFrame(storage) == Frame("none", <<>>, None, FALSE, storage)

\* what the completed calls of the threads settle about the one id they
\* work on.  Untracked: no history is kept.  Open: nothing is settled.
\* Saving(t): thread t is in save(r, persist=True), no other save or delete
\* was in flight when that call began and none has started since.
\* Saved(r): such a save has returned and no save or delete has started
\* since it began.  Deleting(t): thread t is in
\* delete(X, delete_file=True), no other save or delete was in flight when
\* that call began and none has started since.  Deleted: such a delete has
\* returned and no save or delete has started since it began.
Untracked == [kind |-> "untracked"]
Open == [kind |-> "open"]
Saving(t) == [kind |-> "saving", by |-> t]
Saved(project) == [kind |-> "saved", record |-> project]
Deleting(t) == [kind |-> "deleting", by |-> t]
Deleted == [kind |-> "deleted"]

\* a save or delete starts: what the gets in flight noted as settled when
\* they started is settled no more
Unsettle(frames) ==
    [u \in Threads |->
        IF settled # Untracked /\ frames[u].op = "get"
        THEN [frames[u] EXCEPT !.arg = Open]
        ELSE frames[u]]

\* no thread but t is in a call of save or delete
NoOtherWriter(t) ==
    \A u \in Threads \ {t} : frame[u].op \notin {"save", "delete"}

\* all threads idle, the module global holding inst
ThreadsIdle(inst) ==
    /\ settled = Untracked
    /\ pc = [t \in Threads |-> "idle"]
    /\ frame = [t \in Threads |-> IdleFrame(inst)]
    /\ _lock = NoThread
    /\ _project_storage_instance = inst
    /\ _project_storage_lock = NoThread
    /\ constructed = inst

\* ProjectStorage.__init__ on an empty projects directory
Init ==
    /\ memory_store = EmptyStore
    /\ files = [f \in FilePaths |-> NoFile]
    /\ clock = 0
    /\ last = NoCall
    /\ deleted = {}
    /\ probe = NoProbe
    /\ ThreadsIdle(1)

\* time passes
Tick ==
    /\ clock < MaxClock
    /\ clock' = clock + 1
    /\ UNCHANGED <<memory_store, files, last, deleted, probe, thread_vars>>

\* save(project, persist) of the record built at time t from pid and the
\* payload pl, with write outcome w
SaveCall(pid, pl, t, persist, w) ==
    LET project == ProjectContext(pid, pl[1], pl[2], t)
        res     == save(memory_store, files, clock, project, persist, w)
    IN  /\ memory_store' = res.mem
        /\ files' = res.fs
        /\ last' = Call("save", pid, persist, IF persist THEN w ELSE "none", project, res)
        /\ deleted' = deleted \ {pid}
        /\ UNCHANGED <<clock, probe, thread_vars>>

\* a caller builds a record (now or earlier) and calls save(project, persist);
\* a save that does not persist writes nothing, so it has no write outcome
Save ==
    \E pid \in DOMAIN memory_store, pl \in Payloads, t \in 0..clock,
       persist \in BOOLEAN, w \in {"ok", "error", "truncated"} :
        /\ persist \/ w = "ok"
        /\ SaveCall(pid, pl, t, persist, w)

\* get(project_id), with read outcome r
GetCall(pid, r) ==
    LET res == get(memory_store, files, clock, pid, r)
    IN  /\ memory_store' = res.mem
        /\ files' = res.fs
        /\ last' = Call("get", pid, FALSE, IF res.reads > 0 THEN r ELSE "none", None, res)
        /\ UNCHANGED <<clock, deleted, probe, thread_vars>>

\* a caller calls get(project_id)
Get == \E pid \in DOMAIN memory_store, r \in {"ok", "error"} : GetCall(pid, r)

\* a caller calls get_by_name(project_name); the iteration orders of the
\* memory table and of glob are left open
GetByName ==
    \E project_name \in ProjectNames, order \in GlobOrders(files),
       unreadable \in SUBSET DOMAIN files :
        LET named  == NamedInMemory(memory_store, project_name)
            firsts == IF named = {} THEN { <<>> } ELSE { <<i>> : i \in named }
        IN  \E first \in firsts :
                LET res == get_by_name(memory_store, files, clock, project_name,
                                       first, order, unreadable)
                IN  /\ memory_store' = res.mem
                    /\ files' = res.fs
                    /\ last' = NameCall(project_name,
                                        IF res.reads = 0 THEN "none"
                                        ELSE IF unreadable = {} THEN "ok" ELSE "error",
                                        res)
                    /\ UNCHANGED <<clock, deleted, probe, thread_vars>>

\* delete(project_id, delete_file), with unlink outcome u
DeleteCall(pid, delete_file, u) ==
    LET res == delete(memory_store, files, pid, delete_file, u)
    IN  /\ memory_store' = res.mem
        /\ files' = res.fs
        /\ last' = Call("delete", pid, delete_file,
                        IF res.fs_calls > 1 THEN u ELSE "none", None, res)
        /\ deleted' = IF /\ delete_file
                         /\ memory_store[pid] # None
                         /\ files[_get_file_path(pid)] = NoFile
                      THEN deleted \cup {pid}
                      ELSE deleted
        /\ UNCHANGED <<clock, probe, thread_vars>>

\* a caller calls delete(project_id, delete_file)
Delete ==
    \E pid \in DOMAIN memory_store, delete_file \in BOOLEAN, u \in {"ok", "error"} :
        DeleteCall(pid, delete_file, u)

\* a caller calls list_projects(); the iteration orders of the memory table
\* and of glob are left open
ListProjects ==
    \E keys \in KeyOrders(memory_store), order \in GlobOrders(files),
       unreadable \in SUBSET DOMAIN files :
        LET res == list_projects(memory_store, files, keys, order, unreadable)
        IN  /\ memory_store' = res.mem
            /\ files' = res.fs
            /\ last' = ListCall(IF res.reads = 0 THEN "none"
                                ELSE IF unreadable = {} THEN "ok" ELSE "error",
                                res)
            /\ UNCHANGED <<clock, deleted, probe, thread_vars>>

\* what a file of the projects directory may hold that is no record: text
\* that is not JSON, or a JSON object without one of the required fields
CorruptDocs(pid) ==
    {Garbage} \cup
    { JsonDoc([k \in FieldNames \ {missing} |-> ProjectContext(pid, pl[1], pl[2], 0)[k]]) :
        pl \in Payloads, missing \in RequiredFields }

\* something other than the store writes such a file under the name of an id
Corrupt ==
    \E pid \in DOMAIN memory_store : \E doc \in CorruptDocs(pid) :
        /\ files' = [files EXCEPT ![_get_file_path(pid)] = doc]
        /\ last' = NoCall
        /\ UNCHANGED <<memory_store, clock, deleted, probe, thread_vars>>

\* the process ends and a new one constructs the store: the memory tier is
\* empty again, the projects directory is as it was
Restart ==
    /\ memory_store' = [i \in DOMAIN memory_store |-> None]
    /\ last' = NoCall
    /\ deleted' = {}
    /\ UNCHANGED <<files, clock, probe, thread_vars>>

Next == Tick \/ Save \/ Get \/ GetByName \/ Delete \/ Restart

Spec == Init /\ [][Next]_vars

----------------------------------------------------------------------------
(* Properties of the store *)

\* the step is the call save(last'.arg, last'.flag), write outcome last'.io
SaveStep ==
    /\ last'.op = "save"
    /\ SaveCall(last'.id, Content(last'.arg), last'.arg.created_at, last'.flag,
                IF last'.flag THEN last'.io ELSE "ok")

\* the step is the call delete(last'.id, last'.flag), unlink outcome last'.io
DeleteStep ==
    /\ last'.op = "delete"
    /\ \E u \in {"ok", "error"} :
        /\ last'.io \in {u, "none"}
        /\ DeleteCall(last'.id, last'.flag, u)

\* the record a save made at the current time stores: the argument, stamped
Stamped(project) == [project EXCEPT !.updated_at = clock]

\* what get(id) returns when called in the state the step leads to, after the
\* memory tier was emptied, the file being readable
GetAfterEviction(id) == get(EmptyStore, files', clock', id, "ok").ret

C2_MemoryFirst ==
    (/\ last.op = "get"
     /\ last.had_mem
     /\ last.had_file)
        => /\ last.ret = memory_store[last.id]
           /\ last.reads = 0
           /\ last.fs_calls = 0

\* a get answered from memory while the file of the id held another record
C2_Witness ==
    /\ last.op = "get" /\ last.had_mem /\ last.had_file
    /\ files[_get_file_path(last.id)].kind = "json"
    /\ files[_get_file_path(last.id)] # model_dump_json(last.ret)

\* the file of the id holds a JSON object that validates as a record
Parsable(fs, id) ==
    /\ fs[_get_file_path(id)].kind = "json"
    /\ RequiredFields \subseteq DOMAIN fs[_get_file_path(id)].data

\* C3: with no memory entry for X and a parsable (and readable) file for X,
\* get(X) returns the file's record and inserts it into the memory table; a
\* second get(X) directly after it returns the same record and touches no
\* file, whatever a read would do.
C3_Promotion ==
    (/\ last.op = "get"
     /\ ~last.had_mem
     /\ last.io = "ok"
     /\ Parsable(files, last.id))
        => /\ last.ret = ParseProjectContext(files[_get_file_path(last.id)].data, clock)
           /\ memory_store[last.id] = last.ret
           /\ \A r \in {"ok", "error"} :
                LET second == get(memory_store, files, clock, last.id, r)
                IN  /\ second.ret = last.ret
                    /\ second.reads = 0
                    /\ second.fs_calls = 0

\* a get that missed the memory table, read the file and returned its record
C3_Witness ==
    /\ last.op = "get" /\ ~last.had_mem /\ last.had_file /\ last.io = "ok"
    /\ last.ret # None
    /\ last.reads = 1

\* what get(id) returns when called in the state the step leads to, with
\* read outcome r
GetAfter(id, r) == get(memory_store', files', clock', id, r).ret

\* C4: after save(r1, p1) and then save(r2, p2) of the same project_id with
\* other content, for every choice of p1 and p2, get(project_id) returns r2
\* as that save stamped it.
C4_GetReturnsSecondSave ==
    [][ SaveStep
            => \A r \in {"ok", "error"} : GetAfter(last'.id, r) = Stamped(last'.arg) ]_vars

\* a save without persist has replaced a memory entry of other content while
\* the file of the id holds a record
C4_Witness ==
    /\ last.op = "save" /\ last.replaced /\ ~last.flag
    /\ last.had_file
    /\ files[_get_file_path(last.id)].kind = "json"

\* the step is a save of an id whose record, of other content than the new
\* one, is in the memory table and in its file
SecondSaveStep ==
    /\ SaveStep
    /\ memory_store[last'.id] # None
    /\ memory_store[last'.id].project_id = last'.id
    /\ files[_get_file_path(last'.id)] = model_dump_json(memory_store[last'.id])
    /\ Content(memory_store[last'.id]) # Content(last'.arg)

\* C5 as claimed: a second save of a project_id overwrites both tiers: after
\* it neither the memory entry nor the file carries the first save's content.
C5_OverwritesBothTiers ==
    [][ SecondSaveStep
            => /\ Content(memory_store'[last'.id]) # Content(memory_store[last'.id])
               /\ files'[_get_file_path(last'.id)] # files[_get_file_path(last'.id)] ]_vars

\* C5, amended: a save replaces the memory entry of its project_id wholesale,
\* and replaces the file wholesale when persist is true and the write
\* succeeds; a save with persist=False leaves every file as it was.
C5_Overwrite ==
    [][ SaveStep
            => /\ memory_store'[last'.id] = Stamped(last'.arg)
               /\ (last'.flag /\ last'.io = "ok")
                    => files'[_get_file_path(last'.id)] = model_dump_json(Stamped(last'.arg))
               /\ ~last'.flag => files' = files ]_vars

\* a persisting save has replaced, in memory and in the file, a record of
\* other content
C5_Witness ==
    /\ last.op = "save" /\ last.flag /\ last.io = "ok"
    /\ last.replaced /\ last.had_file
    /\ files[_get_file_path(last.id)] = model_dump_json(memory_store[last.id])

\* C6 as claimed: when a project_id is saved a second time, the stored record
\* keeps the created_at of the first save and has the time of the second save
\* as updated_at.
C6_CreatedAtSetOnce ==
    [][ (/\ SaveStep
         /\ memory_store[last'.id] # None
         /\ memory_store[last'.id].project_id = last'.id)
            => /\ memory_store'[last'.id].created_at = memory_store[last'.id].created_at
               /\ memory_store'[last'.id].updated_at = clock ]_vars

Ordered(project) == project.created_at <= project.updated_at

C8_DeleteThenGet ==
    [][ /\ (DeleteStep /\ last'.flag /\ last'.had_mem /\ ~last'.had_file)
            => last'.ret = TRUE
        /\ \A x \in deleted' : \A r \in {"ok", "error"} : GetAfter(x, r) = None
        /\ (DeleteStep /\ ~last'.had_mem /\ ~last'.had_file)
            => /\ last'.ret = FALSE
               /\ memory_store' = memory_store
               /\ files' = files ]_vars

\* the file of the id holds a record of that id
RecordInFile(fs, id) ==
    /\ Parsable(fs, id)
    /\ fs[_get_file_path(id)].data["project_id"] = id

\* C9 as claimed: for both values of delete_file, delete returns true when
\* the record was in at least one tier; it returns false only when the record
\* was in neither.
C9_TrueWhenInSomeTier ==
    [][ (/\ DeleteStep
         /\ \/ memory_store[last'.id] # None
            \/ RecordInFile(files, last'.id))
            => last'.ret = TRUE ]_vars

\* C9, amended: delete returns true exactly when it removed something: the
\* memory entry of the id existed, or delete_file was true, the file of the id
\* existed and its unlink succeeded.  A record held by the file tier alone
\* gives false when delete_file is false or the unlink fails.
C9_TrueIffRemoved ==
    last.op = "delete"
        => (last.ret <=> (\/ last.had_mem
                          \/ (last.flag /\ last.had_file /\ last.io = "ok")))

\* delete(X, delete_file=False) has returned false for a record that the
\* file tier holds
C9_Witness ==
    /\ last.op = "delete" /\ ~last.flag
    /\ ~last.had_mem /\ RecordInFile(files, last.id)
    /\ last.ret = FALSE

\* C11 as claimed: different project_ids have different file paths, so a
\* persisting save of one id never writes the file of another: when it has
\* completed, its own file holds its record and the file of every other id
\* still holds the record it held.
C11_FileIsolation ==
    [][ (SaveStep /\ last'.flag /\ last'.io = "ok")
            => /\ RecordInFile(files', last'.id)
               /\ \A j \in ProjectIds \ {last'.id} :
                    RecordInFile(files, j) => RecordInFile(files', j) ]_vars

\* C12: when the file write inside save(r, persist=True) fails, save still
\* returns r.project_id, the memory table holds r under that id, and a get of
\* the id that follows returns r.
C12_BestEffort ==
    [][ (SaveStep /\ last'.flag /\ last'.io # "ok")
            => /\ last'.ret = last'.id
               /\ memory_store'[last'.id] = Stamped(last'.arg)
               /\ \A r \in {"ok", "error"} :
                    GetAfter(last'.id, r) = memory_store'[last'.id] ]_vars

\* a persisting save whose write broke off has left a file that is not JSON
\* and has returned the id
C12_Witness ==
    /\ last.op = "save" /\ last.flag /\ last.io = "truncated"
    /\ last.ret = last.id
    /\ files[_get_file_path(last.id)] = Garbage
    /\ memory_store[last.id] # None

\* C13: save(r, persist=False) leaves the whole file tier as it was (no file
\* is created, rewritten or removed, the file of r.project_id included) and
\* changes no memory entry but the one of r.project_id.
C13_NoPersistFrame ==
    [][ (SaveStep /\ ~last'.flag)
            => /\ files' = files
               /\ last'.fs_calls = 0
               /\ \A j \in ProjectIds \ {last'.id} :
                    memory_store'[j] = memory_store[j] ]_vars

\* a save without persist of an id whose file holds a record of that id with
\* other content, the other id being in memory
C13_Witness ==
    /\ last.op = "save" /\ ~last.flag /\ last.fs_calls = 0
    /\ RecordInFile(files, last.id)
    /\ Content(files[_get_file_path(last.id)].data) # Content(last.arg)
    /\ \E j \in ProjectIds \ {last.id} : memory_store[j] # None

\* C26 as claimed: after any sequence of calls every entry of the memory
\* table is stored under the project_id of the record it holds, and get(X)
\* never returns a record whose project_id differs from X.
C26_KeyConsistency ==
    /\ \A i \in ProjectIds :
        memory_store[i] # None => memory_store[i].project_id = i
    /\ (last.op = "get" /\ last.ret # None) => last.ret.project_id = last.id

\* what get(id) returns from the given files when the memory tier is empty
GetEvicted(fs, id) == get(EmptyStore, fs, clock, id, "ok").ret

\* C30 as claimed: delete(X, delete_file) leaves, for every other id Y, the
\* memory entry of Y and the file holding Y's persisted record as they were,
\* so that get(Y) after a memory eviction returns what it would have
\* returned before the delete.
C30_DeleteOnlyX ==
    [][ DeleteStep
            => \A y \in ProjectIds \ {last'.id} :
                /\ memory_store'[y] = memory_store[y]
                /\ RecordInFile(files, y) => RecordInFile(files', y)
                /\ RecordInFile(files, y) => GetEvicted(files', y) = GetEvicted(files, y) ]_vars

\* the time limit the module documents for the memory tier, in hours
TTL_HOURS == 3

\* the hours between two readings of the clock
TickHours == TTL_HOURS

\* the time limit of a record has elapsed since it was saved
Expired(project) == (clock - project.updated_at) * TickHours >= TTL_HOURS

\* C20 as claimed: a record saved with persist=False, held by the memory tier
\* alone, is no longer returned by get, get_by_name and list_projects once
\* 3 hours have passed since the save.
C20_MemoryTTL ==
    \A i \in ProjectIds :
        (/\ memory_store[i] # None
         /\ files[_get_file_path(i)] = NoFile
         /\ Expired(memory_store[i]))
            => /\ get(memory_store, files, clock, i, "ok").ret = None
               /\ get_by_name(memory_store, files, clock, memory_store[i].project_name,
                              <<i>>, <<>>, {}).ret = None
               /\ \A keys \in KeyOrders(memory_store) :
                    LET listed == list_projects(memory_store, files, keys, <<>>, {}).ret
                    IN  \A k \in DOMAIN listed : listed[k].project_id # i

----------------------------------------------------------------------------
(* The store over a directory of several files: ids with file names of     *)
(* their own, files written by the store and by others, lookups by id and  *)
(* by name, and the listing                                                *)

DirIds == { <<"a">>, <<"b">> }

DirPaths == { _get_file_path(i) : i \in DirIds }

DirInit ==
    /\ memory_store = [i \in DirIds |-> None]
    /\ files = [f \in DirPaths |-> NoFile]
    /\ clock = 0
    /\ last = NoCall
    /\ deleted = {}
    /\ probe = NoProbe
    /\ ThreadsIdle(1)

DirNext == Save \/ Get \/ GetByName \/ ListProjects \/ Corrupt \/ Delete \/ Restart

DirSpec == DirInit /\ [][DirNext]_vars

\* C14: get_by_name never promotes: whether it answers from memory, from a
\* file or with not-found, the memory table and the file tier are after the
\* call what they were before it.
C14_NoPromotion ==
    [][ (last'.op = "get_by_name" /\ GetByName)
            => /\ memory_store' = memory_store
               /\ files' = files ]_vars

\* get_by_name has returned, from a file, a record whose id the memory table
\* does not hold
C14_Witness ==
    /\ last.op = "get_by_name" /\ last.reads > 0
    /\ last.ret # None
    /\ memory_store[last.ret.project_id] = None

\* the records of the given name that the files hold: what each file that
\* parses as a record of that name parses to
NamedInFiles(fs, now, project_name) ==
    { ParseProjectContext(fs[f].data, now) :
        f \in { g \in DOMAIN fs : /\ fs[g].kind = "json"
                                  /\ RequiredFields \subseteq DOMAIN fs[g].data
                                  /\ fs[g].data["project_name"] = project_name } }

\* C15: get_by_name(n) returns a memory record named n when there is one,
\* otherwise the record of a file (readable, parsable) named n when there is
\* one, otherwise not-found; with several records of the name it returns
\* one of the stored records as stored, never a mixture of two.
C15_ByNameResult ==
    last.op = "get_by_name"
        => LET inmem   == { memory_store[i] : i \in NamedInMemory(memory_store, last.arg) }
               infiles == NamedInFiles(files, clock, last.arg)
           IN  /\ inmem # {} => (last.ret \in inmem /\ last.reads = 0)
               /\ (inmem = {} /\ infiles # {} /\ last.io = "ok") => last.ret \in infiles
               /\ (inmem = {} /\ infiles = {}) => last.ret = None
               /\ last.ret = None \/ last.ret \in inmem \cup infiles

\* get_by_name has missed the memory table and returned one of two records
\* of the name that two files hold
C15_Witness ==
    /\ last.op = "get_by_name" /\ ~last.had_mem
    /\ Cardinality(NamedInFiles(files, clock, last.arg)) = 2
    /\ last.ret \in NamedInFiles(files, clock, last.arg)

\* the step is the call get(last'.id)
GetStep ==
    /\ last'.op = "get"
    /\ \E r \in {"ok", "error"} : GetCall(last'.id, r)

\* C16: when the file of X is not valid JSON or does not match the record
\* schema and X is not in memory, get(X) returns not-found and inserts
\* nothing into the memory table.
C16_CorruptFile ==
    [][ (/\ GetStep
         /\ memory_store[last'.id] = None
         /\ files[_get_file_path(last'.id)] # NoFile
         /\ ~Parsable(files, last'.id))
            => /\ last'.ret = None
               /\ memory_store' = memory_store
               /\ files' = files ]_vars

\* get has read a JSON file that lacks a required field and returned
\* not-found
C16_Witness ==
    /\ last.op = "get" /\ ~last.had_mem /\ last.io = "ok"
    /\ files[_get_file_path(last.id)].kind = "json"
    /\ ~Parsable(files, last.id)
    /\ last.ret = None
    /\ memory_store[last.id] = None

\* C17: list_projects returns at most one entry per project_id; every id of
\* the memory table is listed with source "memory" and the name and
\* updated_at of the memory record, also when a file for it exists; an id
\* that only a file holds is listed with source "file" (the files being
\* readable).
C17_ListOnePerId ==
    last.op = "list_projects"
        => /\ \A k, l \in DOMAIN last.ret :
                k # l => last.ret[k].project_id # last.ret[l].project_id
           /\ \A i \in DOMAIN memory_store :
                memory_store[i] # None
                    => \E k \in DOMAIN last.ret :
                        last.ret[k] = Summary(i, memory_store[i].project_name,
                                              memory_store[i].updated_at, "memory")
           /\ last.io = "ok"
                => \A f \in DOMAIN files :
                    LET pid == IF files[f].kind = "json"
                               THEN DataGet(files[f].data, "project_id", <<>>)
                               ELSE <<>>
                    IN  (pid # <<>> /\ memory_store[pid] = None)
                            => \E k \in DOMAIN last.ret :
                                /\ last.ret[k].project_id = pid
                                /\ last.ret[k].source = "file"

\* list_projects has listed an id from memory, whose file holds other
\* content, and another id from its file
C17_Witness ==
    /\ last.op = "list_projects" /\ last.io = "ok"
    /\ Len(last.ret) = 2
    /\ \E k, l \in DOMAIN last.ret :
        /\ last.ret[k].source = "memory"
        /\ last.ret[l].source = "file"
        /\ RecordInFile(files, last.ret[k].project_id)
        /\ Content(files[_get_file_path(last.ret[k].project_id)].data)
                # Content(memory_store[last.ret[k].project_id])

\* C31 as claimed: every project_id that list_projects reports is
\* retrievable: get of that id in the same state, the files being readable,
\* returns a record, and its project_name is the one listed; a file that
\* get treats as absent is not listed.
C31_ListedIsRetrievable ==
    (last.op = "list_projects" /\ last.io \in {"ok", "none"})
        => \A k \in DOMAIN last.ret :
            LET found == get(memory_store, files, clock, last.ret[k].project_id, "ok").ret
            IN  /\ found # None
                /\ found.project_name = last.ret[k].project_name

----------------------------------------------------------------------------
(* Threads calling into the module: every call of the store and of         *)
(* get_project_storage as the steps it takes, a step being one lock        *)
(* acquisition, one region under a lock, or the file operations between    *)
(* two regions                                                             *)

ConcIds == { <<"a">> }

\* the module is imported: no instance yet, an empty projects directory
ConcInit ==
    /\ memory_store = [i \in ConcIds |-> None]
    /\ files = [f \in { _get_file_path(i) : i \in ConcIds } |-> NoFile]
    /\ clock = 0
    /\ last = NoCall
    /\ deleted = {}
    /\ probe = NoProbe
    /\ ThreadsIdle(NoInstance)

\* thread t goes to the given label
Goto(t, label) == pc' = [pc EXCEPT ![t] = label]

\* thread t has its result and goes to its return
Result(t, value) ==
    /\ Goto(t, "return")
    /\ frame' = [frame EXCEPT ![t].ret = value]

\* what the steps of threads never change
untouched == <<clock, last, deleted, probe, settled>>

\* what the steps of threads never change, the history apart
unrecorded == <<clock, last, deleted, probe>>

\* the module global and its lock
singleton_vars == <<_project_storage_instance, _project_storage_lock, constructed>>

\* the labels at which a thread enters `with self._lock:`, and the label of
\* the region it enters
AfterAcquire ==
    [save_acquire        |-> "save_store",
     get_acquire         |-> "get_check",
     get_promote_acquire |-> "get_promote",
     gbn_acquire         |-> "gbn_scan",
     list_acquire        |-> "list_memory",
     delete_acquire      |-> "delete_memory"]

\* the labels at which the next step of a thread is a region under self._lock
LockedLabels == { AfterAcquire[l] : l \in DOMAIN AfterAcquire }

\* the labels at which the next step of a thread is a file operation of the
\* store: exists, read, write, glob, unlink
FileOpLabels == {"save_write", "get_load", "gbn_files", "list_files", "delete_unlink"}

\* get_project_storage() is called
CallGetProjectStorage(t) ==
    /\ pc[t] = "idle"
    /\ frame' = [frame EXCEPT ![t] =
                    Frame("get_project_storage", <<>>, None, FALSE, frame[t].storage)]
    /\ Goto(t, "gps_check")
    /\ UNCHANGED <<memory_store, files, _lock, singleton_vars, untouched>>

\* `if _project_storage_instance is None:` outside the lock
GpsCheck(t) ==
    /\ pc[t] = "gps_check"
    /\ Goto(t, IF _project_storage_instance = NoInstance THEN "gps_acquire" ELSE "gps_return")
    /\ UNCHANGED <<memory_store, files, frame, _lock, singleton_vars, untouched>>

\* `with _project_storage_lock:` is entered
GpsAcquire(t) ==
    /\ pc[t] = "gps_acquire"
    /\ _project_storage_lock = NoThread
    /\ _project_storage_lock' = t
    /\ Goto(t, "gps_recheck")
    /\ UNCHANGED <<memory_store, files, frame, _lock, _project_storage_instance,
                   constructed, untouched>>

\* the lock is entered and the instance is constructed without a second look
GpsRecheckSkipped(t) ==
    /\ pc[t] = "gps_recheck"
    /\ Goto(t, "gps_construct")
    /\ UNCHANGED <<memory_store, files, frame, _lock, singleton_vars, untouched>>

\* `if _project_storage_instance is None:` under the lock
GpsRecheck(t) ==
    /\ pc[t] = "gps_recheck"
    /\ Goto(t, IF _project_storage_instance = NoInstance THEN "gps_construct" ELSE "gps_release")
    /\ UNCHANGED <<memory_store, files, frame, _lock, singleton_vars, untouched>>

\* `_project_storage_instance = ProjectStorage()`: a new instance with an
\* empty memory table and a lock of its own
GpsConstruct(t) ==
    /\ pc[t] = "gps_construct"
    /\ constructed' = constructed + 1
    /\ _project_storage_instance' = constructed + 1
    /\ memory_store' = [i \in DOMAIN memory_store |-> None]
    /\ _lock' = NoThread
    /\ Goto(t, "gps_release")
    /\ UNCHANGED <<files, frame, _project_storage_lock, untouched>>

\* `with _project_storage_lock:` is left
GpsRelease(t) ==
    /\ pc[t] = "gps_release"
    /\ _project_storage_lock' = NoThread
    /\ Goto(t, "gps_return")
    /\ UNCHANGED <<memory_store, files, frame, _lock, _project_storage_instance,
                   constructed, untouched>>

\* `return _project_storage_instance`
GpsReturn(t) ==
    /\ pc[t] = "gps_return"
    /\ Goto(t, "return")
    /\ frame' = [frame EXCEPT ![t].ret = _project_storage_instance,
                              ![t].storage = _project_storage_instance]
    /\ UNCHANGED <<memory_store, files, _lock, singleton_vars, untouched>>

\* storage.save(project, persist) is called: updated_at is stamped
CallSave(t) ==
    /\ pc[t] = "idle"
    /\ frame[t].storage # NoInstance
    /\ \E pid \in DOMAIN memory_store, pl \in Payloads, persist \in BOOLEAN :
        /\ frame' = Unsettle([frame EXCEPT ![t] =
                        Frame("save", pid, ProjectContext(pid, pl[1], pl[2], clock),
                              persist, frame[t].storage)])
        /\ settled' = IF settled = Untracked THEN settled
                      ELSE IF persist /\ NoOtherWriter(t) THEN Saving(t) ELSE Open
    /\ Goto(t, "save_acquire")
    /\ UNCHANGED <<memory_store, files, _lock, singleton_vars, unrecorded>>

\* storage.get(project_id) is called; the frame notes what was settled then
CallGet(t) ==
    /\ pc[t] = "idle"
    /\ frame[t].storage # NoInstance
    /\ \E pid \in DOMAIN memory_store :
        frame' = [frame EXCEPT ![t] = Frame("get", pid, settled, FALSE, frame[t].storage)]
    /\ Goto(t, "get_acquire")
    /\ UNCHANGED <<memory_store, files, _lock, singleton_vars, untouched>>

\* storage.get_by_name(project_name) is called
CallGetByName(t) ==
    /\ pc[t] = "idle"
    /\ frame[t].storage # NoInstance
    /\ \E project_name \in ProjectNames :
        frame' = [frame EXCEPT ![t] =
                    Frame("get_by_name", <<>>, project_name, FALSE, frame[t].storage)]
    /\ Goto(t, "gbn_acquire")
    /\ UNCHANGED <<memory_store, files, _lock, singleton_vars, untouched>>

\* storage.list_projects() is called
CallListProjects(t) ==
    /\ pc[t] = "idle"
    /\ frame[t].storage # NoInstance
    /\ frame' = [frame EXCEPT ![t] = Frame("list_projects", <<>>, None, FALSE, frame[t].storage)]
    /\ Goto(t, "list_acquire")
    /\ UNCHANGED <<memory_store, files, _lock, singleton_vars, untouched>>

\* storage.delete(project_id, delete_file) is called
CallDelete(t) ==
    /\ pc[t] = "idle"
    /\ frame[t].storage # NoInstance
    /\ \E pid \in DOMAIN memory_store, delete_file \in BOOLEAN :
        /\ frame' = Unsettle([frame EXCEPT ![t] =
                        Frame("delete", pid, None, delete_file, frame[t].storage)])
        /\ settled' = IF settled = Untracked THEN settled
                      ELSE IF delete_file /\ NoOtherWriter(t) THEN Deleting(t)
                      ELSE Open
    /\ Goto(t, "delete_acquire")
    /\ UNCHANGED <<memory_store, files, _lock, singleton_vars, unrecorded>>

\* `with self._lock:` is entered, by a thread that finds the lock free
Acquire(t) ==
    /\ pc[t] \in DOMAIN AfterAcquire
    /\ _lock = NoThread
    /\ _lock' = t
    /\ Goto(t, AfterAcquire[pc[t]])
    /\ UNCHANGED <<memory_store, files, frame, singleton_vars, untouched>>

\* save keeping the lock while it goes on to write the file
SaveStoreKeepsLock(t) ==
    /\ pc[t] = "save_store"
    /\ memory_store' = [memory_store EXCEPT ![frame[t].id] = frame[t].arg]
    /\ IF frame[t].flag
       THEN /\ Goto(t, "save_write")
            /\ UNCHANGED <<frame, _lock>>
       ELSE /\ Result(t, frame[t].id)
            /\ _lock' = NoThread
    /\ UNCHANGED <<files, singleton_vars, untouched>>

\* save under the lock: the upsert into the memory table
SaveStore(t) ==
    /\ pc[t] = "save_store"
    /\ memory_store' = [memory_store EXCEPT ![frame[t].id] = frame[t].arg]
    /\ _lock' = NoThread
    /\ IF frame[t].flag
       THEN Goto(t, "save_write") /\ UNCHANGED frame
       ELSE Result(t, frame[t].id)
    /\ UNCHANGED <<files, singleton_vars, untouched>>

\* save after the lock: _save_to_file
SaveWrite(t) ==
    /\ pc[t] = "save_write"
    /\ files' = _save_to_file(files, frame[t].arg, "ok")
    /\ Result(t, frame[t].id)
    /\ settled' = IF settled = Untracked THEN settled
                  ELSE IF settled = Saving(t) THEN Saved(frame[t].arg)
                  ELSE Open
    /\ UNCHANGED <<memory_store, _lock, singleton_vars, unrecorded>>

\* get returning a record found in memory without leaving the lock
GetCheckHitKeepsLock(t) ==
    /\ pc[t] = "get_check"
    /\ IF memory_store[frame[t].id] # None
       THEN Result(t, memory_store[frame[t].id]) /\ UNCHANGED _lock
       ELSE Goto(t, "get_load") /\ _lock' = NoThread /\ UNCHANGED frame
    /\ UNCHANGED <<memory_store, files, singleton_vars, untouched>>

\* get under the lock: the look into the memory table
GetCheck(t) ==
    /\ pc[t] = "get_check"
    /\ _lock' = NoThread
    /\ IF memory_store[frame[t].id] # None
       THEN Result(t, memory_store[frame[t].id])
       ELSE Goto(t, "get_load") /\ UNCHANGED frame
    /\ UNCHANGED <<memory_store, files, singleton_vars, untouched>>

\* get after the lock: _load_from_file
GetLoad(t) ==
    LET project == _load_from_file(files, clock, frame[t].id, "ok").project
    IN  /\ pc[t] = "get_load"
        /\ Goto(t, IF project # None THEN "get_promote_acquire" ELSE "return")
        /\ frame' = [frame EXCEPT ![t].local = project, ![t].ret = project]
        /\ UNCHANGED <<memory_store, files, _lock, singleton_vars, untouched>>

\* get under the lock again: the loaded record is cached
GetPromote(t) ==
    /\ pc[t] = "get_promote"
    /\ memory_store' = [memory_store EXCEPT ![frame[t].id] = frame[t].local]
    /\ _lock' = NoThread
    /\ Goto(t, "return")
    /\ UNCHANGED <<files, frame, singleton_vars, untouched>>

\* get_by_name under the lock: the scan of the memory table
GbnScan(t) ==
    LET named == NamedInMemory(memory_store, frame[t].arg)
    IN  /\ pc[t] = "gbn_scan"
        /\ _lock' = NoThread
        /\ IF named # {}
           THEN \E i \in named : Result(t, memory_store[i])
           ELSE Goto(t, "gbn_files") /\ UNCHANGED frame
        /\ UNCHANGED <<memory_store, files, singleton_vars, untouched>>

\* get_by_name after the lock: _load_from_file_by_name
GbnFiles(t) ==
    /\ pc[t] = "gbn_files"
    /\ \E order \in GlobOrders(files) :
        Result(t, _load_from_file_by_name(files, clock, frame[t].arg, order, {}).project)
    /\ UNCHANGED <<memory_store, files, _lock, singleton_vars, untouched>>

\* list_projects under the lock: the summaries of the memory entries
ListMemory(t) ==
    /\ pc[t] = "list_memory"
    /\ _lock' = NoThread
    /\ Goto(t, "list_files")
    /\ \E keys \in KeyOrders(memory_store) :
        frame' = [frame EXCEPT ![t].local = MemorySummaries(memory_store, keys)]
    /\ UNCHANGED <<memory_store, files, singleton_vars, untouched>>

\* list_projects after the lock: the files of the directory
ListDirectory(t) ==
    /\ pc[t] = "list_files"
    /\ \E order \in GlobOrders(files) :
        Result(t, ListFiles(files, order, {}, frame[t].local))
    /\ UNCHANGED <<memory_store, files, _lock, singleton_vars, untouched>>

\* delete under the lock: the removal from the memory table
DeleteMemory(t) ==
    LET in_memory == memory_store[frame[t].id] # None
    IN  /\ pc[t] = "delete_memory"
        /\ memory_store' = [memory_store EXCEPT ![frame[t].id] = None]
        /\ _lock' = NoThread
        /\ IF frame[t].flag
           THEN /\ Goto(t, "delete_unlink")
                /\ frame' = [frame EXCEPT ![t].local = in_memory]
           ELSE Result(t, in_memory)
        /\ UNCHANGED <<files, singleton_vars, untouched>>

\* delete after the lock: the file is removed if it exists
DeleteUnlink(t) ==
    LET file_path == _get_file_path(frame[t].id)
    IN  /\ pc[t] = "delete_unlink"
        /\ IF files[file_path] # NoFile
           THEN /\ files' = [files EXCEPT ![file_path] = NoFile]
                /\ Result(t, TRUE)
           ELSE /\ UNCHANGED files
                /\ Result(t, frame[t].local)
        /\ settled' = IF settled = Untracked THEN settled
                      ELSE IF settled = Deleting(t) THEN Deleted
                      ELSE Open
        /\ UNCHANGED <<memory_store, _lock, singleton_vars, unrecorded>>

\* the call returns to its caller
Return(t) ==
    /\ pc[t] = "return"
    /\ Goto(t, "idle")
    /\ frame' = [frame EXCEPT ![t] = IdleFrame(frame[t].storage)]
    /\ UNCHANGED <<memory_store, files, _lock, singleton_vars, untouched>>

ConcNext ==
    \E t \in Threads :
        \/ CallGetProjectStorage(t) \/ GpsCheck(t) \/ GpsAcquire(t) \/ GpsRecheck(t)
        \/ GpsConstruct(t) \/ GpsRelease(t) \/ GpsReturn(t)
        \/ CallSave(t) \/ CallGet(t) \/ CallGetByName(t) \/ CallListProjects(t)
        \/ CallDelete(t)
        \/ Acquire(t)
        \/ SaveStore(t) \/ SaveWrite(t)
        \/ GetCheck(t) \/ GetLoad(t) \/ GetPromote(t)
        \/ GbnScan(t) \/ GbnFiles(t)
        \/ ListMemory(t) \/ ListDirectory(t)
        \/ DeleteMemory(t) \/ DeleteUnlink(t)
        \/ Return(t)

ConcSpec == ConcInit /\ [][ConcNext]_vars

\* C18: under every interleaving of concurrent first calls of
\* get_project_storage, the constructor runs at most once and every call,
\* first or later, returns the same instance.
C18_Singleton ==
    /\ constructed <= 1
    /\ \A t \in Threads :
        (frame[t].op = "get_project_storage" /\ pc[t] = "return")
            => /\ frame[t].ret # NoInstance
               /\ frame[t].ret = _project_storage_instance
    /\ \A t, u \in Threads :
        (frame[t].storage # NoInstance /\ frame[u].storage # NoInstance)
            => frame[t].storage = frame[u].storage

\* a thread that found no instance on its first look holds the module's lock
\* and is about to look again, the instance having been constructed by
\* another thread in between
C18_Witness ==
    \E t, u \in Threads :
        /\ t # u
        /\ pc[t] = "gps_recheck"
        /\ _project_storage_lock = t
        /\ _project_storage_instance # NoInstance
        /\ frame[u].storage = _project_storage_instance

\* C19: a thread that is performing a file operation of save, get,
\* get_by_name, list_projects or delete does not hold the store's lock, and
\* the holder of the lock is in a region that works on the memory table.
C19_LockDiscipline ==
    /\ \A t \in Threads : pc[t] \in FileOpLabels => _lock # t
    /\ _lock # NoThread => pc[_lock] \in LockedLabels

\* one thread is about to write its file while another holds the lock
C19_Witness ==
    \E t, u \in Threads :
        /\ t # u
        /\ pc[t] = "save_write"
        /\ _lock = u
        /\ pc[u] \in LockedLabels

\* a step of thread t inside a call that waits for nothing: every step but
\* the start of a call and the entry into a lock
Proceed(t) ==
    \/ GpsCheck(t) \/ GpsRecheck(t) \/ GpsConstruct(t) \/ GpsRelease(t) \/ GpsReturn(t)
    \/ SaveStore(t) \/ SaveWrite(t)
    \/ GetCheck(t) \/ GetLoad(t) \/ GetPromote(t)
    \/ GbnScan(t) \/ GbnFiles(t)
    \/ ListMemory(t) \/ ListDirectory(t)
    \/ DeleteMemory(t) \/ DeleteUnlink(t)
    \/ Return(t)

\* fair scheduling: a thread that can proceed inside its call eventually
\* does, and a thread waiting at a lock that is free again and again
\* eventually gets it; whether a thread starts another call is up to it
\* (each of these steps moves the thread, so it shows in pc)
Fairness ==
    \A t \in Threads :
        /\ WF_pc(Proceed(t))
        /\ SF_pc(Acquire(t))
        /\ SF_pc(GpsAcquire(t))

FairConcSpec == ConcInit /\ [][ConcNext]_vars /\ Fairness

----------------------------------------------------------------------------
(* Races between calls on one id: the threads of ConcSpec calling save,    *)
(* get and delete, with the history of the calls that have returned        *)
----------------------------------------------------------------------------

\* the module is imported: no instance yet, an empty projects directory,
\* nothing settled
RaceInit ==
    /\ memory_store = [i \in ConcIds |-> None]
    /\ files = [f \in { _get_file_path(i) : i \in ConcIds } |-> NoFile]
    /\ clock = 0
    /\ last = NoCall
    /\ deleted = {}
    /\ probe = NoProbe
    /\ pc = [t \in Threads |-> "idle"]
    /\ frame = [t \in Threads |-> IdleFrame(NoInstance)]
    /\ _lock = NoThread
    /\ _project_storage_instance = NoInstance
    /\ _project_storage_lock = NoThread
    /\ constructed = NoInstance
    /\ settled = Open

RaceNext ==
    \E t \in Threads :
        \/ CallGetProjectStorage(t) \/ GpsCheck(t) \/ GpsAcquire(t) \/ GpsRecheck(t)
        \/ GpsConstruct(t) \/ GpsRelease(t) \/ GpsReturn(t)
        \/ CallSave(t) \/ CallGet(t) \/ CallDelete(t)
        \/ Acquire(t)
        \/ SaveStore(t) \/ SaveWrite(t)
        \/ GetCheck(t) \/ GetLoad(t) \/ GetPromote(t)
        \/ DeleteMemory(t) \/ DeleteUnlink(t)
        \/ Return(t)

RaceSpec == RaceInit /\ [][RaceNext]_vars

\* thread t is returning from a get that started when s was settled, and
\* no save or delete has started since
GetReturning(t, s) ==
    /\ pc[t] = "return"
    /\ frame[t].op = "get"
    /\ frame[t].arg = s
    /\ settled = s

\* C27 as claimed: once save(r2, persist=True) for an id has returned and no
\* later save or delete of the id has started, every get of the id that
\* starts afterwards returns r2, also when another thread's get was in
\* flight while that save ran.
C27_NoStalePromotion ==
    \A t \in Threads :
        (settled.kind = "saved" /\ GetReturning(t, settled))
            => frame[t].ret = settled.record

\* C28 as claimed: once delete(X, delete_file=True) has returned and no save
\* of X has started since the delete began, every get(X) that starts
\* afterwards returns not-found, also when a get or a persisting save of
\* another thread was in flight while the delete ran.
C28_DeleteIsFinal ==
    \A t \in Threads :
        (settled = Deleted /\ GetReturning(t, Deleted))
            => frame[t].ret = None

\* C29 as claimed: when the threads have called save(_, persist=True) for
\* the same id concurrently and all the calls are returning, the write
\* having succeeded, the memory entry and the file of the id hold the same
\* record.
C29_TiersAgree ==
    \A i \in DOMAIN memory_store :
        (\A t \in Threads :
            /\ pc[t] = "return"
            /\ frame[t].op = "save" /\ frame[t].flag /\ frame[t].id = i)
            => /\ memory_store[i] # None
               /\ _load_from_file(files, clock, i, "ok").project = memory_store[i]

----------------------------------------------------------------------------
(* The tool's retrieve and status modes (tools/project_tracker.py): the    *)
(* lookup by continuation_id, then by project_name, then the listing       *)
----------------------------------------------------------------------------

\* a request without continuation_id, and one without project_name
NoId == <<>>
NoName == ""

\* how many entries of the listing the two modes show: projects[:10]
StatusLimit == 10

\* list[:n]
FirstN(list, n) == SubSeq(list, 1, IF Len(list) < n THEN Len(list) ELSE n)

\* the lookup asking get_by_name first and get only when the name misses
FindProjectNameFirst(mem, fs, now, continuation_id, project_name, r, first, order, unreadable) ==
    LET byname == IF project_name # NoName
                  THEN get_by_name(mem, fs, now, project_name, first, order, unreadable)
                  ELSE [mem |-> mem, fs |-> fs, ret |-> None, reads |-> 0, fs_calls |-> 0]
        byid   == get(byname.mem, byname.fs, now, continuation_id, r)
        named  == IF project_name # NoName THEN <<"get_by_name">> ELSE <<>>
    IN  IF byname.ret = None /\ continuation_id # NoId
        THEN [mem |-> byid.mem, fs |-> byid.fs, project |-> byid.ret,
              calls |-> named \o <<"get">>]
        ELSE [mem |-> byname.mem, fs |-> byname.fs, project |-> byname.ret,
              calls |-> named]

\* the lookup both modes start with: get(continuation_id) when one is given,
\* then get_by_name(project_name) when that found nothing and a name is
\* given; calls are the store calls made, in order
FindProject(mem, fs, now, continuation_id, project_name, r, first, order, unreadable) ==
    LET byid   == IF continuation_id # NoId
                  THEN get(mem, fs, now, continuation_id, r)
                  ELSE [mem |-> mem, fs |-> fs, ret |-> None, reads |-> 0, fs_calls |-> 0]
        byname == get_by_name(byid.mem, byid.fs, now, project_name, first, order,
                              unreadable)
        asked  == IF continuation_id # NoId THEN <<"get">> ELSE <<>>
    IN  IF byid.ret = None /\ project_name # NoName
        THEN [mem |-> byname.mem, fs |-> byname.fs, project |-> byname.ret,
              calls |-> asked \o <<"get_by_name">>]
        ELSE [mem |-> byid.mem, fs |-> byid.fs, project |-> byid.ret,
              calls |-> asked]

\* the answer of a mode: found is the lookup's result, failed the status of
\* the answer that lists the projects, ok the status of the answer that
\* shows the project found
ToolAnswer(found, failed, ok, keys, order, unreadable) ==
    LET projects == list_projects(found.mem, found.fs, keys, order, unreadable)
    IN  IF found.project = None
        THEN [mem |-> projects.mem, fs |-> projects.fs, status |-> failed,
              project |-> None, listed |-> projects.ret,
              shown |-> FirstN(projects.ret, StatusLimit),
              calls |-> found.calls \o <<"list_projects">>]
        ELSE [mem |-> found.mem, fs |-> found.fs, status |-> ok,
              project |-> found.project, listed |-> <<>>, shown |-> <<>>,
              calls |-> found.calls]

\* ProjectTrackerTool._handle_retrieve
_handle_retrieve(mem, fs, now, continuation_id, project_name, r, first, keys, order, unreadable) ==
    ToolAnswer(FindProject(mem, fs, now, continuation_id, project_name, r, first, order,
                           unreadable),
               "error", "continuation_available", keys, order, unreadable)

\* ProjectTrackerTool._handle_status
_handle_status(mem, fs, now, continuation_id, project_name, r, first, keys, order, unreadable) ==
    ToolAnswer(FindProject(mem, fs, now, continuation_id, project_name, r, first, order,
                           unreadable),
               "success", "success", keys, order, unreadable)

\* the record of a call of a mode
ToolCall(mode, continuation_id, project_name, r, unreadable, res) ==
    [op |-> mode, id |-> continuation_id, arg |-> project_name, io |-> r,
     unreadable |-> unreadable, ret |-> res.project, status |-> res.status,
     listed |-> res.listed, shown |-> res.shown, calls |-> res.calls]

\* the entries of the memory table that get_by_name may find first
Firsts(mem, project_name) ==
    IF project_name = NoName \/ NamedInMemory(mem, project_name) = {}
    THEN { <<>> }
    ELSE { <<i>> : i \in NamedInMemory(mem, project_name) }

\* the files that cannot be read during a request: none, or all of them
Unreadable(fs, r) == IF r = "ok" THEN { {} } ELSE { DOMAIN fs }

\* a request in retrieve mode
Retrieve ==
    \E continuation_id \in DOMAIN memory_store \cup {NoId},
       project_name \in ProjectNames \cup {NoName},
       r \in {"ok", "error"} :
      \E first \in Firsts(memory_store, project_name),
         keys \in KeyOrders(memory_store), order \in GlobOrders(files),
         unreadable \in Unreadable(files, r) :
        LET res == _handle_retrieve(memory_store, files, clock, continuation_id,
                                    project_name, r, first, keys, order, unreadable)
        IN  /\ memory_store' = res.mem
            /\ files' = res.fs
            /\ last' = ToolCall("retrieve", continuation_id, project_name, r,
                                unreadable, res)
            /\ UNCHANGED <<clock, deleted, probe, thread_vars>>

\* a request in status mode
Status ==
    \E continuation_id \in DOMAIN memory_store \cup {NoId},
       project_name \in ProjectNames \cup {NoName},
       r \in {"ok", "error"} :
      \E first \in Firsts(memory_store, project_name),
         keys \in KeyOrders(memory_store), order \in GlobOrders(files),
         unreadable \in Unreadable(files, r) :
        LET res == _handle_status(memory_store, files, clock, continuation_id,
                                  project_name, r, first, keys, order, unreadable)
        IN  /\ memory_store' = res.mem
            /\ files' = res.fs
            /\ last' = ToolCall("status", continuation_id, project_name, r,
                                unreadable, res)
            /\ UNCHANGED <<clock, deleted, probe, thread_vars>>

\* the store of a fresh process over an empty directory, ids with files of
\* their own
ToolInit ==
    /\ memory_store = [i \in DirIds |-> None]
    /\ files = [f \in DirPaths |-> NoFile]
    /\ clock = 0
    /\ last = NoCall
    /\ deleted = {}
    /\ probe = NoProbe
    /\ ThreadsIdle(1)

ToolNext == Save \/ Restart \/ Retrieve \/ Status

ToolSpec == ToolInit /\ [][ToolNext]_vars

\* the step is a request in retrieve or status mode
ToolStep == last'.op \in {"retrieve", "status"}

\* C24: in retrieve and status mode, when a continuation_id is given and get
\* finds a record for it, that record is the answer whatever project_name
\* says; get_by_name is asked only when no continuation_id was given or get
\* found nothing; when both miss, and only then, the answer is built from
\* list_projects.
C24_LookupOrder ==
    [][ ToolStep =>
          LET got == IF last'.id # NoId
                     THEN get(memory_store, files, clock, last'.id, last'.io).ret
                     ELSE None
              n   == Len(last'.calls)
          IN  /\ got # None => (last'.ret = got /\ last'.calls = <<"get">>)
              /\ (\E k \in 1..n : last'.calls[k] = "get_by_name") => got = None
              /\ last'.ret = None
                    <=> (n > 0 /\ last'.calls[n] = "list_projects")
              /\ last'.ret = None
                    => \E keys \in KeyOrders(memory_store), order \in GlobOrders(files) :
                         last'.shown
                            = FirstN(list_projects(memory_store, files, keys, order,
                                                   last'.unreadable).ret,
                                     StatusLimit) ]_vars

\* a request gave the id of one record and the name of another, and was
\* answered with the record of the id, get_by_name not asked
C24_Witness ==
    /\ last.op \in {"retrieve", "status"}
    /\ last.id # NoId /\ last.arg # NoName
    /\ last.ret # None
    /\ last.ret.project_id = last.id
    /\ last.ret.project_name # last.arg
    /\ \E i \in DOMAIN memory_store :
        memory_store[i] # None /\ memory_store[i].project_name = last.arg
    /\ last.calls = <<"get">>

----------------------------------------------------------------------------
(* The status listing over more projects than it shows: captures into the  *)
(* memory tier, ids taken into use one after the other                     *)
----------------------------------------------------------------------------

\* one project more than the listing shows
MaxProjects == StatusLimit + 1

\* the k-th id taken into use
StatusId(k) == [j \in 1..k |-> "a"]

StatusIds == { StatusId(k) : k \in 1..MaxProjects }

\* the keys of the memory table in the order a dict iterates them, the order
\* of their first insertion; ids are taken into use in the order of StatusId
\* and none is deleted
InsertionOrder(mem) ==
    [k \in 1..Cardinality({ i \in DOMAIN mem : mem[i] # None }) |-> StatusId(k)]

StatusInit ==
    /\ memory_store = [i \in StatusIds |-> None]
    /\ files = [f \in { _get_file_path(i) : i \in StatusIds } |-> NoFile]
    /\ clock = 0
    /\ last = NoCall
    /\ deleted = {}
    /\ probe = NoProbe
    /\ ThreadsIdle(1)

\* ProjectTrackerTool._handle_capture without persist: the id is the
\* continuation_id, an id in use, or a fresh one; the record is built now
Capture ==
    \E k \in 1..MaxProjects :
        /\ k <= Len(InsertionOrder(memory_store)) + 1
        /\ SaveCall(StatusId(k), <<"demo", "v1">>, clock, FALSE, "ok")

\* a request in status mode that names no project
StatusOverview ==
    LET res == _handle_status(memory_store, files, clock, NoId, NoName, "ok", <<>>,
                              InsertionOrder(memory_store), <<>>, {})
    IN  /\ memory_store' = res.mem
        /\ files' = res.fs
        /\ last' = ToolCall("status", NoId, NoName, "ok", {}, res)
        /\ UNCHANGED <<clock, deleted, probe, thread_vars>>

StatusNext == Tick \/ Capture \/ StatusOverview

StatusSpec == StatusInit /\ [][StatusNext]_vars

\* C25 as claimed: when status mode finds no specific project, it shows up
\* to StatusLimit projects and no project left out has a later updated_at
\* than a project shown.
C25_MostRecentShown ==
    (last.op = "status" /\ last.ret = None)
        => /\ Len(last.shown) <= StatusLimit
           /\ \A k \in DOMAIN last.shown, l \in DOMAIN last.listed :
                l > Len(last.shown)
                    => last.listed[l].updated_at <= last.shown[k].updated_at

----------------------------------------------------------------------------
(* Callers changing the record objects they hold.  The memory table holds  *)
(* objects, not copies: save stores the object it was passed and get       *)
(* stores the object it returns, so every object of the table is one that  *)
(* a caller holds too                                                      *)
----------------------------------------------------------------------------

AliasIds == { <<"a">> }

AliasInit ==
    /\ memory_store = [i \in AliasIds |-> None]
    /\ files = [f \in { _get_file_path(i) : i \in AliasIds } |-> NoFile]
    /\ clock = 0
    /\ last = NoCall
    /\ deleted = {}
    /\ probe = NoProbe
    /\ ThreadsIdle(1)

\* between two calls of the store, a caller assigns to fields of a record
\* object it passed to save or received from get or get_by_name; the
\* object being the one of the memory table, the table's entry changes
Mutate ==
    \E pid \in DOMAIN memory_store, pl \in Payloads :
        /\ memory_store[pid] # None
        /\ Content(memory_store[pid]) # pl
        /\ memory_store' = [memory_store EXCEPT
                               ![pid] = [@ EXCEPT !.project_name = pl[1],
                                                  !.context = pl[2]]]
        /\ last' = [op |-> "mutate", id |-> pid, arg |-> pl]
        /\ UNCHANGED <<files, clock, deleted, probe, thread_vars>>

AliasNext == Save \/ Get \/ GetByName \/ Delete \/ Restart \/ Mutate

AliasSpec == AliasInit /\ [][AliasNext]_vars

\* C21 as claimed: a stored record is changed only by saving its id again:
\* when, between two calls of the store, a caller modifies a record object
\* it passed to save or received from get or get_by_name, what get(X)
\* returns stays what it was.
C21_OnlySaveMutates ==
    [][ last'.op = "mutate"
            => \A x \in DOMAIN memory_store :
                get(memory_store', files', clock', x, "ok").ret
                    = get(memory_store, files, clock, x, "ok").ret ]_vars

----------------------------------------------------------------------------
(* Failures of the file system: each call of the store with a failure      *)
(* (an OSError, or text that does not parse) injected at one of the        *)
(* file-system steps it performs.  A step inside a try whose except        *)
(* clause covers the failure ends in the handler; a step outside ends the  *)
(* call with the exception                                                 *)
----------------------------------------------------------------------------

\* the file-system steps of the five operations, and no failure
FsSteps == {"exists", "glob", "read", "parse", "write", "unlink"}
NoFault == "none"

\* what read_text and the parse make of a failure injected at fault
ReadOutcome(fault) == IF fault \in {"read", "parse"} THEN "error" ELSE "ok"

\* the files that cannot be read or parsed under fault
UnreadableUnder(fs, fault) == IF fault \in {"read", "parse"} THEN DOMAIN fs ELSE {}

\* the outcome of a call: the two tiers after it, and either the value
\* returned or the exception raised
Returned(mem, fs, ret) == [mem |-> mem, fs |-> fs, ret |-> ret, raised |-> FALSE]
Raised(mem, fs) == [mem |-> mem, fs |-> fs, ret |-> None, raised |-> TRUE]

\* save: its one file-system step, the write, is inside the try of
\* _save_to_file
save_fault(mem, fs, now, project, persist, fault) ==
    LET res == save(mem, fs, now, project, persist,
                    IF fault = "write" THEN "error" ELSE "ok")
    IN  Returned(res.mem, res.fs, res.ret)

\* _load_from_file: exists() is called before the try, read_text and the
\* parse inside it
_load_from_file_fault(fs, now, project_id, fault) ==
    IF fault = "exists"
    THEN [project |-> None, raised |-> TRUE]
    ELSE [project |-> _load_from_file(fs, now, project_id, ReadOutcome(fault)).project,
          raised  |-> FALSE]

\* get: a memory hit performs no file-system step; otherwise what
\* _load_from_file raises passes through get
get_fault(mem, fs, now, project_id, fault) ==
    LET loaded == _load_from_file_fault(fs, now, project_id, fault)
    IN  IF mem[project_id] # None
        THEN Returned(mem, fs, mem[project_id])
        ELSE IF loaded.raised
        THEN Raised(mem, fs)
        ELSE IF loaded.project # None
        THEN Returned([mem EXCEPT ![project_id] = loaded.project], fs, loaded.project)
        ELSE Returned(mem, fs, None)

\* get_by_name: a memory hit performs no file-system step; otherwise
\* _load_from_file_by_name calls exists() on the directory and starts the
\* glob outside any try, and reads and parses each file inside one
get_by_name_fault(mem, fs, now, project_name, first, order, fault) ==
    IF first # <<>>
    THEN Returned(mem, fs, mem[first[1]])
    ELSE IF fault \in {"exists", "glob"}
    THEN Raised(mem, fs)
    ELSE Returned(mem, fs,
                  _load_from_file_by_name(fs, now, project_name, order,
                                          UnreadableUnder(fs, fault)).project)

\* list_projects: exists() on the directory and the glob are outside any
\* try, the read and the parse of each file inside one
list_projects_fault(mem, fs, keys, order, fault) ==
    IF fault \in {"exists", "glob"}
    THEN Raised(mem, fs)
    ELSE Returned(mem, fs,
                  list_projects(mem, fs, keys, order, UnreadableUnder(fs, fault)).ret)

\* delete: the memory entry is removed first; then, when delete_file is
\* set, exists() is called outside the try and unlink inside it
delete_fault(mem, fs, project_id, delete_file, fault) ==
    LET memory_only == delete(mem, fs, project_id, FALSE, "ok")
        res == delete(mem, fs, project_id, delete_file,
                      IF fault = "unlink" THEN "error" ELSE "ok")
    IN  IF delete_file /\ fault = "exists"
        THEN Raised(memory_only.mem, fs)
        ELSE Returned(res.mem, res.fs, res.ret)

\* the record of a call made under a fault
FaultCall(op, id, fault, res) ==
    [op |-> op, id |-> id, fault |-> fault, ret |-> res.ret, raised |-> res.raised]

\* the effect of such a call
FaultEffect(op, id, fault, res) ==
    /\ memory_store' = res.mem
    /\ files' = res.fs
    /\ last' = FaultCall(op, id, fault, res)
    /\ UNCHANGED <<clock, deleted, probe, thread_vars>>

\* save(project, persist=True) while the write fails
FaultySave ==
    \E pid \in DOMAIN memory_store, pl \in Payloads :
        FaultEffect("save", pid, "write",
                    save_fault(memory_store, files, clock,
                               ProjectContext(pid, pl[1], pl[2], clock), TRUE, "write"))

\* get(project_id) while one of its file-system steps fails
FaultyGet ==
    \E pid \in DOMAIN memory_store, fault \in {"exists", "read", "parse"} :
        FaultEffect("get", pid, fault, get_fault(memory_store, files, clock, pid, fault))

\* get_by_name(project_name) while one of its file-system steps fails
FaultyGetByName ==
    \E project_name \in ProjectNames, fault \in {"exists", "glob", "read", "parse"} :
      \E first \in Firsts(memory_store, project_name), order \in GlobOrders(files) :
        FaultEffect("get_by_name", <<>>, fault,
                    get_by_name_fault(memory_store, files, clock, project_name, first,
                                      order, fault))

\* list_projects() while one of its file-system steps fails
FaultyListProjects ==
    \E fault \in {"exists", "glob", "read", "parse"} :
      \E keys \in KeyOrders(memory_store), order \in GlobOrders(files) :
        FaultEffect("list_projects", <<>>, fault,
                    list_projects_fault(memory_store, files, keys, order, fault))

\* delete(project_id, delete_file) while one of its file-system steps fails
FaultyDelete ==
    \E pid \in DOMAIN memory_store, delete_file \in BOOLEAN,
       fault \in {"exists", "unlink"} :
        FaultEffect("delete", pid, fault,
                    delete_fault(memory_store, files, pid, delete_file, fault))

FaultInit ==
    /\ memory_store = [i \in DirIds |-> None]
    /\ files = [f \in DirPaths |-> NoFile]
    /\ clock = 0
    /\ last = NoCall
    /\ deleted = {}
    /\ probe = NoProbe
    /\ ThreadsIdle(1)

FaultNext ==
    \/ Save \/ Restart
    \/ FaultySave \/ FaultyGet \/ FaultyGetByName \/ FaultyListProjects \/ FaultyDelete

FaultSpec == FaultInit /\ [][FaultNext]_vars

\* C22 as claimed: no failure of the file system escapes the store: each of
\* save, get, get_by_name, list_projects and delete, with a failure injected
\* at any file-system step it performs, returns a value and raises nothing.
C22_NoFailureEscapes ==
    (last.op \in {"save", "get", "get_by_name", "list_projects", "delete"}
        /\ "fault" \in DOMAIN last)
            => ~last.raised

----------------------------------------------------------------------------
(* The file-name sanitisation on its own: every project id of up to        *)
(* MaxIdLen characters is given to _get_file_path                          *)

IdStrings == UNION { [1..n -> Chars] : n \in 0..MaxIdLen }

SanInit ==
    /\ memory_store = EmptyStore
    /\ files = [f \in FilePaths |-> NoFile]
    /\ clock = 0
    /\ last = NoCall
    /\ deleted = {}
    /\ \E s \in IdStrings : probe = [id |-> s, path |-> <<>>, done |-> FALSE]
    /\ ThreadsIdle(1)

Sanitize ==
    /\ ~probe.done
    /\ probe' = [probe EXCEPT !.path = _get_file_path(probe.id), !.done = TRUE]
    /\ UNCHANGED <<memory_store, files, clock, last, deleted, thread_vars>>

SanNext == Sanitize

SanSpec == SanInit /\ [][SanNext]_vars

IdChar(c) == c \in AlnumChars \cup {"-"}

====
